---- MODULE Spec2Model ----
(***************************************************************************)
(* Model of the document-generation service: the generation orchestrator   *)
(* (DocumentGenerator.generate with its response cache and per-session     *)
(* context), the HTTP handlers around it (generate_document, download,     *)
(* reset), the content validator, and the two block parsers that turn      *)
(* Markdown text into pdf / docx blocks.                                   *)
(***************************************************************************)
EXTENDS Naturals, Integers, Sequences, FiniteSets, TLC

(***************************************************************************)
(* TEXT                                                                    *)
(* A text is a sequence of lines followed by `pad` filler words.  A line   *)
(* is a sequence of atoms: an atom is a run of characters the code never   *)
(* looks into (" " is one blank, "#" one hash, "A" a word ...).  The       *)
(* string the code sees is the lines joined by "\n", then, when pad > 0,   *)
(* one more line of `pad` plain words separated by single blanks.          *)
(***************************************************************************)

\* Largest number of explicit lines of a text the validator is tried on.
MaxLines == 2

Blank == " "

\* The sample lines texts are built from.
LHead1 == <<"#", " ", "A">>
LHead2 == <<"##", " ", "B">>
LHead3 == <<"###", " ", "C">>
LPlain == <<"uno", " ", "dos">>
LMidHash == <<"ver", " ", "#", " ", "nota">>
LHashNoSpace == <<"#tema">>
LHashOnly == <<"#", " ">>

\* A text value.
Text(ls, n) == [lines |-> ls, pad |-> n]

RECURSIVE SeqsUpTo(_, _)
\* All sequences over S of length at most n.
SeqsUpTo(S, n) ==
    IF n = 0 THEN {<<>>}
    ELSE LET shorter == SeqsUpTo(S, n - 1)
         IN shorter \cup {Append(s, x) : s \in {t \in shorter : Len(t) = n - 1}, x \in S}

RECURSIVE WordsOfLine(_, _, _)
\* str.split() on one line: the number of maximal runs of non-blank atoms
\* from position i on; inWord says whether position i - 1 is inside a run.
WordsOfLine(line, i, inWord) ==
    IF i > Len(line) THEN 0
    ELSE IF line[i] = Blank THEN WordsOfLine(line, i + 1, FALSE)
    ELSE (IF inWord THEN 0 ELSE 1) + WordsOfLine(line, i + 1, TRUE)

RECURSIVE WordsOfLines(_, _)
WordsOfLines(ls, i) ==
    IF i > Len(ls) THEN 0 ELSE WordsOfLine(ls[i], 1, FALSE) + WordsOfLines(ls, i + 1)

\* len(text.split())
word_count(text) == WordsOfLines(text.lines, 1) + text.pad

\* The last character of an atom is a hash.
EndsWithHash(a) == a \in {"#", "##", "###"}

\* re.search(r'^.*\n*(# .+|## .+|### .+)', text, re.MULTILINE): `^.*` takes
\* any prefix of a line, so the search succeeds exactly when some line holds
\* a hash followed by a blank and at least one more character of that line.
heading_search(text) ==
    \E k \in 1..Len(text.lines) :
        \E i \in 1..Len(text.lines[k]) :
            /\ EndsWithHash(text.lines[k][i])
            /\ i + 2 <= Len(text.lines[k])
            /\ text.lines[k][i + 1] = Blank

Levels == {"basico", "medio", "profesional"}

max_words == [basico |-> 500, medio |-> 1000, profesional |-> 2000]

MinWords == 50

\* validate_generated_text with the word floor off by one (<= instead of <).
validate_generated_text_floor_mutant(text, level, is_conversational) ==
    IF word_count(text) > max_words[level] THEN "too_long"
    ELSE IF word_count(text) <= MinWords /\ ~is_conversational THEN "too_short"
    ELSE IF level \in {"medio", "profesional"} /\ ~is_conversational
            /\ ~heading_search(text) THEN "no_heading"
    ELSE "valid"

\* DocumentGenerator.validate_generated_text: "valid" or the reason.
validate_generated_text(text, level, is_conversational) ==
    IF word_count(text) > max_words[level] THEN "too_long"
    ELSE IF word_count(text) < MinWords /\ ~is_conversational THEN "too_short"
    ELSE IF level \in {"medio", "profesional"} /\ ~is_conversational
            /\ ~heading_search(text) THEN "no_heading"
    ELSE "valid"


(***************************************************************************)
(* REQUESTS                                                                *)
(***************************************************************************)

\* An optional value: None, or Some(x).
None == <<>>
Some(x) == <<x>>

Sessions == {"s1", "s2"}

\* The worker threads that serve requests (Flask's threaded server).
Threads == {"t1", "t2"}

\* Largest number of /generate requests started in one run.
MaxRequests == 2

\* config.py
VALID_DOC_TYPES == {"texto", "markdown", "pdf", "docx", "html"}
TEMPLATES == {"carta_formal", "contrato", "informe", "factura"}
VALID_TEMPLATES == {""} \cup TEMPLATES
VALID_LEVELS == Levels
VALID_LANGUAGES == {"es", "en", "fr", "de", "it"}
MAX_PROMPT_LENGTH == 1500
MAX_FIELD_LENGTH == 500

\* The placeholders of each built-in template.
placeholders ==
    [carta_formal |-> {"destinatario", "contenido", "remitente"},
     contrato |-> {"tipo", "parte_a", "parte_b", "contenido", "lugar", "fecha"},
     informe |-> {"titulo", "contenido"},
     factura |-> {"numero", "cliente", "fecha", "contenido", "total"}]

\* A prompt: its characters (an atom) and how many they are.
PHola == [s |-> "Hola", n |-> 4]
PDoc == [s |-> "redacta un informe", n |-> 18]
PEmpty == [s |-> "", n |-> 0]

\* A field value: its characters (an atom), how many they are, and how many
\* of them are "<" (html.escape writes each as the four characters "&lt;").
FieldValue(s, n, lt) == [s |-> s, n |-> n, lt |-> lt]

NoFields == [f \in {} |-> FieldValue("", 0, 0)]
TitleField == [f \in {"titulo"} |-> FieldValue("Ventas", 6, 0)]

\* sanitize_fields: every value HTML-escaped.
sanitize_fields(fields) ==
    [f \in DOMAIN fields |->
        [fields[f] EXCEPT !.n = fields[f].n + 3 * fields[f].lt, !.lt = 0]]

Req(p, d, t, f, lv, lg) ==
    [prompt |-> p, doc_type |-> d, template |-> t, fields |-> f, level |-> lv,
     language |-> lg]

\* The request bodies POSTed to /generate.
Requests ==
    { Req(PHola, "texto", "", NoFields, "basico", "es"),
      Req(PDoc, "docx", "", NoFields, "medio", "es"),
      Req(PDoc, "docx", "informe", TitleField, "medio", "es"),
      Req(PEmpty, "docx", "", NoFields, "medio", "es") }

\* prompt.lower().strip() on the prompts modelled.
lower_strip(s) == IF s = "Hola" THEN "hola" ELSE s

\* The phrases the six patterns of is_conversational_prompt accept.
conversational_keywords ==
    {"hola", "cómo estás", "cómo estás?", "hey", "hi", "qué tal", "qué tal?", "hello"}

is_conversational_prompt(prompt) == lower_strip(prompt.s) \in conversational_keywords

\* validate_input without the test of the language.
validate_input_language_mutant(r) ==
    IF r.prompt.n = 0 THEN "empty_prompt"
    ELSE IF r.prompt.n > MAX_PROMPT_LENGTH THEN "prompt_too_long"
    ELSE IF r.doc_type \notin VALID_DOC_TYPES THEN "bad_doc_type"
    ELSE IF r.template # "" /\ r.template \notin VALID_TEMPLATES THEN "bad_template"
    ELSE IF r.level \notin VALID_LEVELS THEN "bad_level"
    ELSE IF \E f \in DOMAIN r.fields : sanitize_fields(r.fields)[f].n > MAX_FIELD_LENGTH
         THEN "field_too_long"
    ELSE "ok"

\* validate_input: "ok", or the ValueError raised.
validate_input(r) ==
    IF r.prompt.n = 0 THEN "empty_prompt"
    ELSE IF r.prompt.n > MAX_PROMPT_LENGTH THEN "prompt_too_long"
    ELSE IF r.doc_type \notin VALID_DOC_TYPES THEN "bad_doc_type"
    ELSE IF r.template # "" /\ r.template \notin VALID_TEMPLATES THEN "bad_template"
    ELSE IF r.level \notin VALID_LEVELS THEN "bad_level"
    ELSE IF r.language \notin VALID_LANGUAGES THEN "bad_language"
    ELSE IF \E f \in DOMAIN r.fields : sanitize_fields(r.fields)[f].n > MAX_FIELD_LENGTH
         THEN "field_too_long"
    ELSE "ok"

\* generate_cache_key: the formatted string, as the tuple of its parts; the
\* sha256 of the serialized history is taken as the history itself.
generate_cache_key(prompt, doc_type, template, fields, level, history) ==
    <<prompt.s, doc_type, template, fields, level, history>>


(***************************************************************************)
(* THE BLOCK PARSERS                                                       *)
(* A block is what a backend emits for one source line (or one table): its *)
(* kind, the numbering the backend writes before a heading's title (<<k>>  *)
(* is "k. ", <<s, j>> is "s.j ", <<>> is no prefix), its text and, for a   *)
(* table, its rows.                                                        *)
(***************************************************************************)

Block(kind, prefix, text, rows) == [kind |-> kind, prefix |-> prefix, text |-> text, rows |-> rows]

RECURSIVE lstrip(_)
lstrip(line) == IF line # <<>> /\ Head(line) = Blank THEN lstrip(Tail(line)) ELSE line

RECURSIVE rstrip(_)
rstrip(line) ==
    IF line # <<>> /\ line[Len(line)] = Blank THEN rstrip(SubSeq(line, 1, Len(line) - 1))
    ELSE line

\* str.strip()
strip(line) == rstrip(lstrip(line))

\* line.startswith(marker + ' ') for a one-atom marker
startswith(line, marker) == Len(line) >= 2 /\ line[1] = marker /\ line[2] = Blank

\* line.startswith('  - '): two blanks, then the marker and a blank
startswith_indented(line, marker) ==
    Len(line) >= 4 /\ line[1] = Blank /\ line[2] = Blank /\ line[3] = marker /\ line[4] = Blank

\* line[n:], n counted in atoms: a heading or bullet marker and its blank are
\* two atoms, whatever the marker's length in characters.
drop(line, n) == SubSeq(line, n + 1, Len(line))

RECURSIVE split_pipe(_, _, _)
\* line.split('|'): the segments between the pipes, from position i on; cur
\* is the segment in progress.
split_pipe(line, i, cur) ==
    IF i > Len(line) THEN <<cur>>
    ELSE IF line[i] = "|" THEN <<cur>> \o split_pipe(line, i + 1, <<>>)
    ELSE split_pipe(line, i + 1, Append(cur, line[i]))

SelectNonEmpty(cells) == SelectSeq(cells, LAMBDA c : c # <<>>)
Stripped(cells) == [k \in 1..Len(cells) |-> strip(cells[k])]

\* [cell.strip() for cell in line.split('|') if cell.strip()]
docx_cells(line) == SelectNonEmpty(Stripped(split_pipe(line, 1, <<>>)))

\* [cell.strip() for cell in line.split('|')[1:-1]]
pdf_cells(line) ==
    LET parts == split_pipe(line, 1, <<>>)
    IN IF Len(parts) <= 2 THEN <<>> ELSE Stripped(SubSeq(parts, 2, Len(parts) - 1))

\* ---- the docx backend: DocumentGenerator.parse_markdown_for_docx ----

DocxStart ==
    [section_number |-> 0, subsection_number |-> 0, in_list |-> FALSE, list_level |-> 0,
     in_table |-> FALSE, table_data |-> <<>>, out |-> <<>>, raised |-> FALSE]

\* _add_table_to_docx: the table is added, then styling its first cell
\* raises (cloneNode is no method of the element; parse_xml and nsdecls are
\* not imported), which aborts the render.
add_table_to_docx(st) ==
    [st EXCEPT !.out = Append(@, Block("table", <<>>, <<>>, st.table_data)),
               !.raised = TRUE]

\* Lines 392-398.
docx_heading1(st, line) ==
    [st EXCEPT !.section_number = @ + 1, !.subsection_number = 0, !.in_list = FALSE,
               !.out = Append(@, Block("h1", <<st.section_number + 1>>,
                                       strip(drop(line, 2)), <<>>))]

\* Lines 399-404.
docx_heading2(st, line) ==
    [st EXCEPT !.subsection_number = @ + 1, !.in_list = FALSE,
               !.out = Append(@, Block("h2", <<st.section_number, st.subsection_number + 1>>,
                                       strip(drop(line, 2)), <<>>))]

\* One pass of the loop body (lines 381-445) on a raw line.
docx_line(st, raw) ==
    LET line == strip(raw)
    IN IF line = <<>> THEN
            IF st.in_table /\ st.table_data # <<>> THEN add_table_to_docx(st) ELSE st
       ELSE IF startswith(line, "#") THEN docx_heading1(st, line)
       ELSE IF startswith(line, "##") THEN docx_heading2(st, line)
       ELSE IF startswith(line, "###") THEN
            [st EXCEPT !.in_list = FALSE,
                       !.out = Append(@, Block("h3", <<>>, strip(drop(line, 2)), <<>>))]
       ELSE IF startswith(line, "-") \/ startswith(line, "*") THEN
            LET lvl == IF st.in_list THEN st.list_level ELSE 1
            IN [st EXCEPT !.in_list = TRUE, !.list_level = lvl,
                          !.out = Append(@, Block("bullet", <<lvl>>, strip(drop(line, 2)), <<>>))]
       ELSE IF startswith_indented(line, "-") \/ startswith_indented(line, "*") THEN
            [st EXCEPT !.in_list = TRUE, !.list_level = 2,
                       !.out = Append(@, Block("bullet", <<2>>, strip(drop(line, 4)), <<>>))]
       ELSE LET nolist == [st EXCEPT !.in_list = FALSE, !.list_level = 0]
            IN IF line[1] = "|" THEN
                    [nolist EXCEPT !.in_table = TRUE,
                                   !.table_data = IF docx_cells(line) # <<>>
                                                  THEN Append(@, docx_cells(line)) ELSE @]
               ELSE IF nolist.in_table /\ nolist.table_data # <<>> THEN add_table_to_docx(nolist)
               ELSE [nolist EXCEPT !.out = Append(@, Block("para", <<>>, line, <<>>))]

RECURSIVE docx_lines(_, _, _)
docx_lines(st, ls, i) ==
    IF st.raised \/ i > Len(ls) THEN st ELSE docx_lines(docx_line(st, ls[i]), ls, i + 1)

\* The filler words of a text are one last plain line, which no parser looks
\* into: one atom stands for it.
FillerLine == <<"relleno">>
SourceLines(text) == IF text.pad > 0 THEN Append(text.lines, FillerLine) ELSE text.lines

\* Lines 372-449: the blocks added to the document, and whether it raised.
parse_markdown_for_docx(text) ==
    LET st == docx_lines(DocxStart, SourceLines(text), 1)
    IN IF ~st.raised /\ st.in_table /\ st.table_data # <<>> THEN add_table_to_docx(st) ELSE st

\* ---- the pdf backend: utils.parse_markdown_for_pdf ----

\* add_logo_to_pdf: the image of the logo, when a logo is given.
add_logo_to_pdf(logo) == IF logo THEN <<Block("logo", <<>>, <<>>, <<>>)>> ELSE <<>>

\* The parser's variables before the first line (lines 132-140 and 166).
PdfStart(logo) ==
    [in_list |-> FALSE, list_level |-> 0, table_data |-> <<>>, story |-> add_logo_to_pdf(logo),
     toc |-> <<>>]

\* A heading line at source index i: the toc entry, the anchor, the heading.
pdf_heading(st, kind, title, i) ==
    [st EXCEPT !.toc = Append(@, [title |-> title, anchor |-> i]),
               !.in_list = FALSE,
               !.story = @ \o <<Block("anchor", <<i>>, <<>>, <<>>),
                                Block(kind, <<>>, title, <<>>)>>]

pdf_flush(st) ==
    IF st.table_data # <<>>
    THEN [st EXCEPT !.story = Append(@, Block("table", <<>>, <<>>, st.table_data)),
                    !.table_data = <<>>]
    ELSE st

\* One pass of the loop body (lines 193-240) on the raw line of index i.
pdf_line(st, raw, i) ==
    LET line == strip(raw)
    IN IF line = <<>> THEN [st EXCEPT !.story = Append(@, Block("spacer", <<>>, <<>>, <<>>))]
       ELSE IF startswith(line, "#") THEN pdf_heading(st, "h1", drop(line, 2), i)
       ELSE IF startswith(line, "##") THEN pdf_heading(st, "h2", drop(line, 2), i)
       ELSE IF startswith(line, "###") THEN pdf_heading(st, "h3", drop(line, 2), i)
       ELSE IF startswith(line, "-") \/ startswith(line, "*") THEN
            [st EXCEPT !.in_list = TRUE,
                       !.story = Append(@, Block("bullet", <<st.list_level>>, drop(line, 2), <<>>))]
       ELSE IF startswith_indented(line, "-") \/ startswith_indented(line, "*") THEN
            [st EXCEPT !.in_list = TRUE, !.list_level = 1,
                       !.story = Append(@, Block("bullet", <<2>>, drop(line, 4), <<>>))]
       ELSE IF line[1] = "|" THEN
            LET cells == pdf_cells(line)
            IN IF cells # <<>> /\ \A k \in 1..Len(cells) : cells[k] # <<>>
               THEN [st EXCEPT !.table_data = Append(@, cells)] ELSE st
       ELSE LET flushed == pdf_flush(st)
                spaced == IF flushed.in_list
                          THEN [flushed EXCEPT !.in_list = FALSE, !.list_level = 0,
                                   !.story = Append(@, Block("spacer", <<>>, <<>>, <<>>))]
                          ELSE flushed
            IN [spaced EXCEPT !.story = Append(@, Block("para", <<>>, line, <<>>))]

RECURSIVE pdf_lines(_, _, _)
pdf_lines(st, ls, i) ==
    IF i > Len(ls) THEN st ELSE pdf_lines(pdf_line(st, ls[i], i - 1), ls, i + 1)

\* Lines 265-271: the title inserted at 0, every link inserted at 1 (each
\* before the links inserted so far), a spacer after them.
pdf_toc(toc) ==
    <<Block("toc_title", <<>>, <<>>, <<>>)>>
    \o [k \in 1..Len(toc) |->
          Block("toc_link", <<toc[Len(toc) + 1 - k].anchor>>, toc[Len(toc) + 1 - k].title, <<>>)]
    \o <<Block("spacer", <<>>, <<>>, <<>>)>>

\* The chart directives: an atom each, followed on its line by the data.
\* The Title atoms are the phrases written "Gráfico De Barras Con Datos:" and
\* "Gráfico De Líneas Con Datos:", the Cap atom is "Gráfico de barras con
\* datos:" (a capital in the first word only).
BarMarker == "gráfico de barras con datos:"
BarMarkerTitle == "Gráfico De Barras Con Datos:"
BarMarkerCap == "Gráfico de barras con datos:"
LineMarker == "gráfico de líneas con datos:"
LineMarkerTitle == "Gráfico De Líneas Con Datos:"

\* atom.lower() on the directive atoms (no other atom's case is looked at).
lower(a) ==
    CASE a \in {BarMarkerTitle, BarMarkerCap} -> BarMarker
      [] a = LineMarkerTitle -> LineMarker
      [] OTHER -> a

\* The atoms in which the exact characters "con datos:" occur.
ConDatos == {BarMarker, BarMarkerCap, LineMarker}

\* The atoms float() accepts.
Numerals == {"10", "20"}

RECURSIVE split_at(_, _, _, _)
\* str.split(sep): the segments between the atoms that hold the separator
\* (seps), from position i on; cur is the segment in progress.
split_at(line, seps, i, cur) ==
    IF i > Len(line) THEN <<cur>>
    ELSE IF line[i] \in seps THEN <<cur>> \o split_at(line, seps, i + 1, <<>>)
    ELSE split_at(line, seps, i + 1, Append(cur, line[i]))

\* "<directive>" in line.lower()
has_marker(line, m) == \E i \in 1..Len(line) : lower(line[i]) = m

\* line.split("con datos:")
con_datos_parts(line) == split_at(line, ConDatos, 1, <<>>)

\* line.split("con datos:")[1].strip()
data_str(line) == strip(con_datos_parts(line)[2])

\* Lines 175-179 and 185-189: the dict of label -> float(value), or None when
\* a pair has no colon or a value float() refuses.
chart_pairs(data) ==
    LET pairs == split_at(data, {","}, 1, <<>>)
        parts(k) == split_at(pairs[k], {":"}, 1, <<>>)
        good(k) == /\ Len(parts(k)) >= 2
                   /\ Len(strip(parts(k)[2])) = 1
                   /\ strip(parts(k)[2])[1] \in Numerals
    IN IF \A k \in 1..Len(pairs) : good(k)
       THEN Some([k \in 1..Len(pairs) |-> <<strip(parts(k)[1]), strip(parts(k)[2])>>])
       ELSE None

NoChart == [chart_type |-> "", chart_data |-> None, raised |-> FALSE]

\* One pass of the detection loop (lines 169-190).  The directive is looked
\* for in the lowered line and the data are cut off the line as written: the
\* index [1] raises IndexError, outside the `try`, when "con datos:" does not
\* occur in it in lower case.
chart_line(ch, raw) ==
    LET line == strip(raw)
        type == IF has_marker(line, BarMarker) THEN "bar"
                ELSE IF has_marker(line, LineMarker) THEN "line" ELSE ""
    IN IF type = "" THEN ch
       ELSE IF Len(con_datos_parts(line)) < 2
       THEN [chart_type |-> type, chart_data |-> ch.chart_data, raised |-> TRUE]
       ELSE [chart_type |-> type, chart_data |-> chart_pairs(data_str(line)), raised |-> FALSE]

RECURSIVE chart_scan(_, _, _)
chart_scan(ch, ls, i) ==
    IF ch.raised \/ i > Len(ls) THEN ch ELSE chart_scan(chart_line(ch, ls[i]), ls, i + 1)

\* Lines 253-263: the image of the chart, when there is chart data.
pdf_chart(ch) ==
    IF ch.chart_data # None
    THEN <<Block("chart", <<>>, <<ch.chart_type>>, ch.chart_data[1]),
           Block("spacer", <<>>, <<>>, <<>>)>>
    ELSE <<>>

\* The story returned for a text, with or without a logo, or the exception
\* raised by the detection loop before any line is parsed.
parse_markdown_for_pdf(text, logo) ==
    LET st == pdf_flush(pdf_lines(PdfStart(logo), SourceLines(text), 1))
        ch == chart_scan(NoChart, SourceLines(text), 1)
    IN IF ch.raised THEN [story |-> <<>>, raised |-> TRUE]
       ELSE [story |-> pdf_toc(st.toc) \o st.story \o pdf_chart(ch), raised |-> FALSE]

(***************************************************************************)
(* THE MODEL PROVIDER AND THE TEXTS IT RETURNS                             *)
(***************************************************************************)

LTable == <<"|", "h1", "|", "h2", "|">>

EmptyText == Text(<<>>, 0)
\* 62 words under a heading: valid at every level.
TDoc == Text(<<LHead1>>, 60)
\* 40 plain words: too short for a document, fine for a chat reply.
TShort == Text(<<>>, 40)
\* A valid document that holds a table.
TTable == Text(<<LHead1, LTable>>, 60)

\* What chat.completions.create returns (stripped) ...
ProviderTexts == {TDoc, TShort, TTable}
\* ... or raises: AuthenticationError, RateLimitError, APIConnectionError,
\* any other exception.
ProviderErrors == {"AuthenticationError", "RateLimitError", "APIConnectionError", "Other"}

\* The `except` clauses of generate: the message raised for an exception.
error_kind(exc) ==
    CASE exc = "AuthenticationError" -> "auth"
      [] exc = "RateLimitError" -> "quota"
      [] exc = "APIConnectionError" -> "conn"
      [] OTHER -> "generic"

(***************************************************************************)
(* STATE                                                                   *)
(***************************************************************************)

VARIABLES
    cache,                  \* DocumentGenerator.cache: cache key -> text
    conversation_context,   \* DocumentGenerator.conversation_context: session -> snapshot
    file_storage,           \* ia.file_storage: file id -> artifact
    history,                \* the history table: session -> committed rows
    hs,                     \* thread -> the request it is serving
    nreq,                   \* /generate requests started
    nfiles,                 \* artifact identifiers minted
    reset_clean,            \* history variable: session -> a reset_context happened
                            \* and no generate has rewritten the snapshot since
    live,                   \* history variable: the six inputs of each generate call
                            \* that returned a generated text whose cache entry has
                            \* not expired since -> that text and the language it
                            \* was asked in
    validation,             \* a call of validate_generated_text: arguments and verdict
    rendering,              \* a text and what each backend's parser makes of it
    dl                      \* the /download request being served

\* The variables of the pure-function specifications, and all of them.
pvars == <<validation, rendering, dl>>
svars == <<cache, conversation_context, file_storage, history, hs, nreq, nfiles,
           reset_clean, live, validation, rendering, dl>>

\* get_history keeps the last 20 rows.
HistoryWindow == 20

\* A history row; every content is a text.
Row(role, content) == [role |-> role, content |-> content]
PromptText(prompt) == Text(<<<<prompt.s>>>>, 0)
NoteText(r) == Text(<<<<"Documento generado", r.doc_type, r.level, r.language>>>>, 0)

\* history_manager.get_history
get_history(s) ==
    IF Len(history[s]) <= HistoryWindow THEN history[s]
    ELSE SubSeq(history[s], Len(history[s]) - HistoryWindow + 1, Len(history[s]))

\* The entry generate creates for a session that has none.
EmptyContext ==
    [last_document |-> None, last_prompt |-> None, last_doc_type |-> None,
     last_template |-> None, last_level |-> None, last_language |-> None]

\* Snapshot without the language: the entry keeps no last_language.
Snapshot_mutant(r, text) ==
    [last_document |-> Some(text), last_prompt |-> Some(r.prompt),
     last_doc_type |-> Some(r.doc_type), last_template |-> Some(r.template),
     last_level |-> Some(r.level), last_language |-> None]

\* The snapshot generate writes after a document.
Snapshot(r, text) ==
    [last_document |-> Some(text), last_prompt |-> Some(r.prompt),
     last_doc_type |-> Some(r.doc_type), last_template |-> Some(r.template),
     last_level |-> Some(r.level), last_language |-> Some(r.language)]

\* Python truthiness of last_document: neither None nor "".
Truthy(doc) == doc # None /\ doc # Some(EmptyText)

\* A thread serving nothing.
IdleThread ==
    [pc |-> "idle", sid |-> "s1", req |-> Req(PEmpty, "texto", "", NoFields, "basico", "es"),
     history |-> <<>>, is_conversational |-> FALSE, context_summary |-> None,
     cache_key |-> None, generated_text |-> EmptyText, corrective |-> FALSE,
     first_check |-> "", ncalls |-> 0, nvalid |-> 0, eff |-> {}, provider_error |-> "",
     gen |-> "", detail |-> "", hit |-> FALSE, pending |-> <<>>, status |-> 0,
     file_id |-> 0]

NoValidation ==
    [text |-> EmptyText, level |-> "basico", is_conversational |-> FALSE, verdict |-> ""]

\* A text, whether a logo comes with it, and the two outputs.
Rendering(text, logo) == [text |-> text, logo |-> logo, pdf |-> None, docx |-> None]

NoRendering == Rendering(EmptyText, FALSE)

\* No download in progress; prev_id and prev_payload remember the last one
\* that was served.
IdleDownload ==
    [pc |-> "idle", file_id |-> 0, status |-> 0, payload |-> None, prev_id |-> 0,
     prev_payload |-> None]

\* The server after construction: empty caches, no session, idle threads.
ServerInit ==
    /\ dl = IdleDownload
    /\ cache = [k \in {} |-> EmptyText]
    /\ conversation_context = [x \in {} |-> EmptyContext]
    /\ file_storage = [f \in {} |-> [text |-> EmptyText, doc_type |-> ""]]
    /\ history = [x \in Sessions |-> <<>>]
    /\ hs = [t \in Threads |-> IdleThread]
    /\ nreq = 0
    /\ nfiles = 0
    /\ reset_clean = [x \in Sessions |-> FALSE]
    /\ live = [i \in {} |-> [text |-> EmptyText, language |-> ""]]

Init == ServerInit /\ validation = NoValidation /\ rendering = NoRendering

Free(t) == hs[t].pc = "idle"

\* A function with one more (or one replaced) entry, and with one entry less.
Put(f, k, v) == [x \in DOMAIN f \cup {k} |-> IF x = k THEN v ELSE f[x]]
Drop(f, k) == [x \in DOMAIN f \ {k} |-> f[x]]

\* generate raises: the thread is back in generate_document's `except`, which
\* answers 500 (none of generate's exceptions is a ValueError).
Raise(rec, kind, detail) ==
    [rec EXCEPT !.pc = "teardown", !.gen = kind, !.detail = detail, !.status = 500]


(***************************************************************************)
(* DocumentGenerator.generate, one action per stretch of code between two  *)
(* points where another thread can be scheduled on the shared state.       *)
(***************************************************************************)

Others == <<file_storage, history, nreq, nfiles, pvars>>

\* The six inputs of generate the fingerprint is made of.
Inputs(rec) ==
    <<rec.req.prompt, rec.req.doc_type, rec.req.template, rec.req.fields, rec.req.level,
      rec.history>>

\* Lines 105-109: classify the prompt and test whether the session has an
\* entry.
generate_init(t) ==
    LET rec == hs[t]
        absent == rec.sid \notin DOMAIN conversation_context
    IN /\ rec.pc = "g_init"
       /\ hs' = [hs EXCEPT ![t] =
            [rec EXCEPT !.pc = IF absent THEN "g_create" ELSE "g_context",
                        !.is_conversational = is_conversational_prompt(rec.req.prompt)]]
       /\ UNCHANGED <<cache, conversation_context, reset_clean, live, Others>>

\* Lines 110-117: the empty entry assigned to the session the test found
\* absent (it takes the place of an entry another thread made since).
generate_create(t) ==
    LET rec == hs[t]
    IN /\ rec.pc = "g_create"
       /\ conversation_context' = Put(conversation_context, rec.sid, EmptyContext)
       /\ hs' = [hs EXCEPT ![t] =
            [rec EXCEPT !.pc = "g_context", !.eff = @ \cup {"ctx_create"}]]
       /\ UNCHANGED <<cache, reset_clean, live, Others>>

\* The block appended to the system message (lines 122-130): the fields of
\* the previous document and its first 200 characters.
context_block(c) ==
    [doc_type |-> c.last_doc_type, template |-> c.last_template, level |-> c.last_level,
     language |-> c.last_language, document |-> c.last_document]

\* Lines 119-206: read the session's entry (a KeyError, outside the `try`,
\* when a reset removed it) and assemble the system message.
generate_context(t) ==
    LET rec == hs[t]
    IN /\ rec.pc = "g_context"
       /\ hs' = [hs EXCEPT ![t] =
            IF rec.sid \notin DOMAIN conversation_context
            THEN Raise(rec, "KeyError", "context_missing")
            ELSE [rec EXCEPT
                    !.pc = "g_lookup",
                    !.context_summary =
                        IF Truthy(conversation_context[rec.sid].last_document)
                           /\ ~rec.is_conversational
                        THEN Some(context_block(conversation_context[rec.sid]))
                        ELSE None]]
       /\ UNCHANGED <<cache, conversation_context, reset_clean, live, Others>>

\* Lines 207-211: the cache key and the membership test.
generate_lookup(t) ==
    LET rec == hs[t]
        key == generate_cache_key(rec.req.prompt, rec.req.doc_type, rec.req.template,
                                  rec.req.fields, rec.req.level, rec.history)
    IN /\ rec.pc = "g_lookup"
       /\ hs' = [hs EXCEPT ![t] =
            [rec EXCEPT !.cache_key = Some(key),
                        !.pc = IF key \in DOMAIN cache THEN "g_hit" ELSE "g_call1"]]
       /\ UNCHANGED <<cache, conversation_context, reset_clean, live, Others>>

\* generate_hit that records the returned text as the session's last document.
generate_hit_mutant(t) ==
    LET rec == hs[t]
        key == rec.cache_key[1]
        found == key \in DOMAIN cache
        writes == found /\ rec.sid \in DOMAIN conversation_context
    IN /\ rec.pc = "g_hit"
       /\ hs' = [hs EXCEPT ![t] =
            IF found
            THEN [rec EXCEPT !.pc = "d_save", !.generated_text = cache[key],
                             !.hit = TRUE, !.gen = "ok",
                             !.eff = IF writes THEN @ \cup {"ctx_update"} ELSE @]
            ELSE Raise(rec, "KeyError", "cache_expired")]
       /\ conversation_context' =
            IF writes
            THEN [conversation_context EXCEPT ![rec.sid] = Snapshot(rec.req, cache[key])]
            ELSE conversation_context
       /\ reset_clean' = IF writes THEN [reset_clean EXCEPT ![rec.sid] = FALSE]
                         ELSE reset_clean
       /\ UNCHANGED <<cache, live, Others>>

\* Line 213: read the entry (TTLCache raises KeyError when it expired since
\* the membership test) and return it.
generate_hit(t) ==
    LET rec == hs[t]
        key == rec.cache_key[1]
    IN /\ rec.pc = "g_hit"
       /\ hs' = [hs EXCEPT ![t] =
            IF key \in DOMAIN cache
            THEN [rec EXCEPT !.pc = "d_save", !.generated_text = cache[key],
                             !.hit = TRUE, !.gen = "ok"]
            ELSE Raise(rec, "KeyError", "cache_expired")]
       /\ UNCHANGED <<cache, conversation_context, reset_clean, live, Others>>

\* provider_raises that tries again after a connection error.
provider_raises_mutant(rec, exc) ==
    IF exc = "APIConnectionError" /\ rec.ncalls < 3
    THEN [rec EXCEPT !.ncalls = @ + 1, !.provider_error = exc]
    ELSE [Raise(rec, error_kind(exc), "provider") EXCEPT
             !.ncalls = rec.ncalls + 1, !.provider_error = exc]

\* The provider raises inside the `try` (lines 254-265).
provider_raises(rec, exc) ==
    [Raise(rec, error_kind(exc), "provider") EXCEPT
        !.ncalls = rec.ncalls + 1, !.provider_error = exc]

\* Lines 216-227: the first completion and its validation.
first_completion(rec, text) ==
    LET check == validate_generated_text(text, rec.req.level, rec.is_conversational)
        called == [rec EXCEPT !.ncalls = @ + 1, !.nvalid = @ + 1, !.first_check = check,
                              !.generated_text = text]
    IN IF check # "valid" /\ ~rec.is_conversational
       THEN [called EXCEPT !.pc = "g_call2", !.corrective = TRUE]
       ELSE [called EXCEPT !.pc = IF rec.is_conversational THEN "g_store" ELSE "g_update"]

generate_call1(t) ==
    /\ hs[t].pc = "g_call1"
    /\ \/ \E text \in ProviderTexts : hs' = [hs EXCEPT ![t] = first_completion(hs[t], text)]
       \/ \E exc \in ProviderErrors : hs' = [hs EXCEPT ![t] = provider_raises(hs[t], exc)]
    /\ UNCHANGED <<cache, conversation_context, reset_clean, live, Others>>

\* second_completion that asks once more when the retry fails validation.
second_completion_mutant(rec, text) ==
    LET check == validate_generated_text(text, rec.req.level, rec.is_conversational)
        called == [rec EXCEPT !.ncalls = @ + 1, !.nvalid = @ + 1, !.generated_text = text]
    IN IF check # "valid"
       THEN IF called.ncalls < 3 THEN called ELSE Raise(called, "generic", "validation")
       ELSE [called EXCEPT !.pc = "g_update"]

\* Lines 228-237: the retry with the corrective clause, and its validation.
second_completion(rec, text) ==
    LET check == validate_generated_text(text, rec.req.level, rec.is_conversational)
        called == [rec EXCEPT !.ncalls = @ + 1, !.nvalid = @ + 1, !.generated_text = text]
    IN IF check # "valid"
       THEN Raise(called, "generic", "validation")
       ELSE [called EXCEPT !.pc = "g_update"]

generate_call2(t) ==
    /\ hs[t].pc = "g_call2"
    /\ \/ \E text \in ProviderTexts : hs' = [hs EXCEPT ![t] = second_completion(hs[t], text)]
       \/ \E exc \in ProviderErrors : hs' = [hs EXCEPT ![t] = provider_raises(hs[t], exc)]
    /\ UNCHANGED <<cache, conversation_context, reset_clean, live, Others>>

\* generate_update that writes the cache before it updates the entry.
generate_update_mutant(t) ==
    LET rec == hs[t]
        logged == [rec EXCEPT !.eff = @ \cup {"cache_write"}]
    IN /\ rec.pc = "g_update"
       /\ cache' = Put(cache, rec.cache_key[1], rec.generated_text)
       /\ IF rec.sid \in DOMAIN conversation_context
          THEN /\ conversation_context' =
                    [conversation_context EXCEPT
                        ![rec.sid] = Snapshot(rec.req, rec.generated_text)]
               /\ reset_clean' = [reset_clean EXCEPT ![rec.sid] = FALSE]
               /\ hs' = [hs EXCEPT ![t] =
                    [logged EXCEPT !.pc = "g_store", !.eff = @ \cup {"ctx_update"}]]
          ELSE /\ hs' = [hs EXCEPT ![t] = Raise(logged, "generic", "context_missing")]
               /\ UNCHANGED <<conversation_context, reset_clean>>
       /\ UNCHANGED <<live, Others>>

\* generate_update that assigns the document and the prompt only, leaving
\* the other four fields for a later statement.
generate_update_partial_mutant(t) ==
    LET rec == hs[t]
    IN /\ rec.pc = "g_update"
       /\ IF rec.sid \in DOMAIN conversation_context
          THEN /\ conversation_context' =
                    [conversation_context EXCEPT
                        ![rec.sid] = [@ EXCEPT !.last_document = Some(rec.generated_text),
                                               !.last_prompt = Some(rec.req.prompt)]]
               /\ reset_clean' = [reset_clean EXCEPT ![rec.sid] = FALSE]
               /\ hs' = [hs EXCEPT ![t] =
                    [rec EXCEPT !.pc = "g_store", !.eff = @ \cup {"ctx_update"}]]
          ELSE /\ hs' = [hs EXCEPT ![t] = Raise(rec, "generic", "context_missing")]
               /\ UNCHANGED <<conversation_context, reset_clean>>
       /\ UNCHANGED <<cache, live, Others>>

\* Lines 240-248: the six fields of the session's entry, written by one
\* dict.update (a KeyError inside the `try` when a reset removed the entry).
\* The entry is looked up and then updated: an update of an entry that left
\* the store in between is seen by nobody, which is this step taken before
\* the entry left.
generate_update(t) ==
    LET rec == hs[t]
    IN /\ rec.pc = "g_update"
       /\ IF rec.sid \in DOMAIN conversation_context
          THEN /\ conversation_context' =
                    [conversation_context EXCEPT
                        ![rec.sid] = Snapshot(rec.req, rec.generated_text)]
               /\ reset_clean' = [reset_clean EXCEPT ![rec.sid] = FALSE]
               /\ hs' = [hs EXCEPT ![t] =
                    [rec EXCEPT !.pc = "g_store", !.eff = @ \cup {"ctx_update"}]]
          ELSE /\ hs' = [hs EXCEPT ![t] = Raise(rec, "generic", "context_missing")]
               /\ UNCHANGED <<conversation_context, reset_clean>>
       /\ UNCHANGED <<cache, live, Others>>

\* generate_store that caches documents only, never a conversational reply.
generate_store_mutant(t) ==
    LET rec == hs[t]
    IN /\ rec.pc = "g_store"
       /\ cache' = IF rec.is_conversational THEN cache
                   ELSE Put(cache, rec.cache_key[1], rec.generated_text)
       /\ live' = Put(live, Inputs(rec),
                       [text |-> rec.generated_text, language |-> rec.req.language])
       /\ hs' = [hs EXCEPT ![t] =
            [rec EXCEPT !.pc = "d_save", !.gen = "ok",
                        !.eff = IF rec.is_conversational THEN @ ELSE @ \cup {"cache_write"}]]
       /\ UNCHANGED <<conversation_context, reset_clean, Others>>

\* Lines 250-252: write the cache and return.
generate_store(t) ==
    LET rec == hs[t]
    IN /\ rec.pc = "g_store"
       /\ cache' = Put(cache, rec.cache_key[1], rec.generated_text)
       /\ live' = Put(live, Inputs(rec),
                       [text |-> rec.generated_text, language |-> rec.req.language])
       /\ hs' = [hs EXCEPT ![t] =
            [rec EXCEPT !.pc = "d_save", !.gen = "ok", !.eff = @ \cup {"cache_write"}]]
       /\ UNCHANGED <<conversation_context, reset_clean, Others>>

\* reset_context that empties the whole store.
reset_context_all_mutant(s) ==
    /\ conversation_context' = [x \in {} |-> EmptyContext]
    /\ reset_clean' = [reset_clean EXCEPT ![s] = TRUE]

\* reset_context that leaves the session's entry in place.
reset_context_mutant(s) ==
    /\ conversation_context' = conversation_context
    /\ reset_clean' = [reset_clean EXCEPT ![s] = TRUE]

\* DocumentGenerator.reset_context
reset_context(s) ==
    /\ conversation_context' =
            IF s \in DOMAIN conversation_context THEN Drop(conversation_context, s)
            ELSE conversation_context
    /\ reset_clean' = [reset_clean EXCEPT ![s] = TRUE]


(***************************************************************************)
(* THE HTTP HANDLERS (ia.py)                                               *)
(***************************************************************************)

mime_types == [pdf |-> "application/pdf",
               docx |-> "application/vnd.openxmlformats-officedocument.wordprocessingml.document",
               html |-> "text/html"]

FileTypes == {"pdf", "docx", "html"}

\* DocumentGenerator.render raises (lines 694-696): the docx backend does on
\* every table it adds, the pdf backend on a directive it cannot cut.
render_raises(text, doc_type) ==
    \/ doc_type = "docx" /\ parse_markdown_for_docx(text).raised
    \/ doc_type = "pdf" /\ parse_markdown_for_pdf(text, FALSE).raised

\* Lines 216-231 of generate_document: validate the input (a ValueError is
\* answered 400), look the template's placeholders up (ia.py never imports
\* `re`, so line 226 raises NameError, answered 500), read the history.
generate_document_begin(t, s, r) ==
    /\ Free(t)
    /\ nreq < MaxRequests
    /\ t = "t2" => ~Free("t1")
    /\ nreq' = nreq + 1
    /\ hs' = [hs EXCEPT ![t] =
         LET rec == [IdleThread EXCEPT !.sid = s, !.req = r]
         IN IF validate_input(r) # "ok"
            THEN [rec EXCEPT !.pc = "teardown", !.status = 400, !.detail = validate_input(r)]
            ELSE IF r.template \in TEMPLATES
            THEN [rec EXCEPT !.pc = "teardown", !.status = 500, !.detail = "NameError"]
            ELSE [rec EXCEPT !.pc = "g_init", !.history = get_history(s),
                             !.req = [r EXCEPT !.fields = sanitize_fields(r.fields)]]]
    /\ UNCHANGED <<pvars, cache, conversation_context, file_storage, history, nfiles, reset_clean,
                   live>>

\* Lines 234-251: reject an empty text, queue the three history rows (they
\* reach the table when close_db commits), answer a chat reply inline.
generate_document_save(t) ==
    LET rec == hs[t]
        rows == <<Row("user", PromptText(rec.req.prompt)),
                  Row("assistant", rec.generated_text),
                  Row("system", NoteText(rec.req))>>
    IN /\ rec.pc = "d_save"
       /\ hs' = [hs EXCEPT ![t] =
            IF rec.generated_text = EmptyText
            THEN [rec EXCEPT !.pc = "teardown", !.status = 400, !.detail = "empty_text"]
            ELSE [rec EXCEPT !.pending = rows,
                             !.pc = IF rec.is_conversational THEN "teardown" ELSE "d_render",
                             !.status = IF rec.is_conversational THEN 200 ELSE 0]]
       /\ UNCHANGED <<pvars, cache, conversation_context, file_storage, history, nreq, nfiles,
                      reset_clean, live>>

\* Lines 256-282: render; a failure is answered 500; the buffer of a pdf,
\* docx or html is stored under a freshly minted identifier.
generate_document_render(t) ==
    LET rec == hs[t]
        stored == rec.req.doc_type \in FileTypes
    IN /\ rec.pc = "d_render"
       /\ IF render_raises(rec.generated_text, rec.req.doc_type)
          THEN /\ hs' = [hs EXCEPT ![t] =
                    [rec EXCEPT !.pc = "teardown", !.status = 500, !.detail = "render"]]
               /\ UNCHANGED <<file_storage, nfiles>>
          ELSE /\ hs' = [hs EXCEPT ![t] =
                    [rec EXCEPT !.pc = "teardown", !.status = 200,
                                !.file_id = IF stored THEN nfiles + 1 ELSE 0,
                                !.eff = IF stored THEN @ \cup {"file_write"} ELSE @]]
               /\ nfiles' = IF stored THEN nfiles + 1 ELSE nfiles
               /\ file_storage' =
                    IF stored
                    THEN Put(file_storage, nfiles + 1,
                             [buffer |-> [text |-> rec.generated_text,
                                          doc_type |-> rec.req.doc_type],
                              file_name |-> rec.req.doc_type,
                              mime_type |-> mime_types[rec.req.doc_type]])
                    ELSE file_storage
       /\ UNCHANGED <<pvars, cache, conversation_context, history, nreq, reset_clean, live>>

\* close_db (lines 31-36): the request's connection commits at teardown,
\* whatever the answer was; the thread is free again.
close_db(t) ==
    LET rec == hs[t]
    IN /\ rec.pc = "teardown"
       /\ history' = [history EXCEPT ![rec.sid] = @ \o rec.pending]
       /\ hs' = [hs EXCEPT ![t] = IdleThread]
       /\ UNCHANGED <<pvars, cache, conversation_context, file_storage, nreq, nfiles, reset_clean,
                      live>>

\* POST /reset_context
reset_context_route(s) ==
    /\ reset_context(s)
    /\ UNCHANGED <<pvars, cache, file_storage, history, hs, nreq, nfiles, live>>

\* POST /clear_history: the session's rows deleted, its context reset.
clear_history_route(s) ==
    /\ history' = [history EXCEPT ![s] = <<>>]
    /\ reset_context(s)
    /\ UNCHANGED <<pvars, cache, file_storage, hs, nreq, nfiles, live>>

\* TTLCache: an entry of the response cache expires (ttl = 3600 s).
cache_expire(k) ==
    /\ k \in DOMAIN cache
    /\ cache' = Drop(cache, k)
    /\ live' = [i \in {j \in DOMAIN live :
                        generate_cache_key(j[1], j[2], j[3], j[4], j[5], j[6]) # k} |-> live[i]]
    /\ UNCHANGED <<pvars, conversation_context, file_storage, history, hs, nreq, nfiles, reset_clean>>

\* TTLCache: an entry of the artifact cache expires.
file_expire(f) ==
    /\ f \in DOMAIN file_storage
    /\ file_storage' = Drop(file_storage, f)
    /\ UNCHANGED <<pvars, cache, conversation_context, history, hs, nreq, nfiles, reset_clean, live>>

\* download_file, lines 182-183: the membership test, answered 404 when it
\* fails.
download_begin(f) ==
    /\ dl.pc = "idle"
    /\ dl' = IF f \in DOMAIN file_storage
             THEN [dl EXCEPT !.pc = "dl_read", !.file_id = f]
             ELSE [dl EXCEPT !.pc = "answered", !.file_id = f, !.status = 404]
    /\ UNCHANGED <<cache, conversation_context, file_storage, history, hs, nreq, nfiles,
                   reset_clean, live, validation, rendering>>

\* download_file that hands the artifact out once and forgets it.
download_read_mutant ==
    /\ dl.pc = "dl_read"
    /\ dl' = IF dl.file_id \in DOMAIN file_storage
             THEN [dl EXCEPT !.pc = "answered", !.status = 200,
                             !.payload = Some(file_storage[dl.file_id])]
             ELSE [dl EXCEPT !.pc = "answered", !.status = 500]
    /\ file_storage' = IF dl.file_id \in DOMAIN file_storage
                       THEN Drop(file_storage, dl.file_id) ELSE file_storage
    /\ UNCHANGED <<cache, conversation_context, history, hs, nreq, nfiles,
                   reset_clean, live, validation, rendering>>

\* download_file, lines 184-192: read the entry and send it; the KeyError of
\* an entry that expired since the test is answered 500 (lines 193-195).
download_read ==
    /\ dl.pc = "dl_read"
    /\ dl' = IF dl.file_id \in DOMAIN file_storage
             THEN [dl EXCEPT !.pc = "answered", !.status = 200,
                             !.payload = Some(file_storage[dl.file_id])]
             ELSE [dl EXCEPT !.pc = "answered", !.status = 500]
    /\ UNCHANGED <<cache, conversation_context, file_storage, history, hs, nreq, nfiles,
                   reset_clean, live, validation, rendering>>

\* The answer is sent.
download_end ==
    /\ dl.pc = "answered"
    /\ dl' = IF dl.status = 200
             THEN [IdleDownload EXCEPT !.prev_id = dl.file_id, !.prev_payload = dl.payload]
             ELSE [IdleDownload EXCEPT !.prev_id = dl.prev_id, !.prev_payload = dl.prev_payload]
    /\ UNCHANGED <<cache, conversation_context, file_storage, history, hs, nreq, nfiles,
                   reset_clean, live, validation, rendering>>

\* One step of the request thread t is serving.
thread_step(t) ==
    \/ \E s \in Sessions, r \in Requests : generate_document_begin(t, s, r)
    \/ generate_init(t)
    \/ generate_create(t)
    \/ generate_context(t)
    \/ generate_lookup(t)
    \/ generate_hit(t)
    \/ generate_call1(t)
    \/ generate_call2(t)
    \/ generate_update(t)
    \/ generate_store(t)
    \/ generate_document_save(t)
    \/ generate_document_render(t)
    \/ close_db(t)

\* One /generate request at a time, with resets, history clears and cache
\* expiry arriving between any two of its steps.
Next ==
    \/ thread_step("t1")
    \/ \E s \in Sessions : reset_context_route(s)
    \/ \E s \in Sessions : clear_history_route(s)
    \/ \E k \in DOMAIN cache : cache_expire(k)

Spec == Init /\ [][Next]_svars

\* Request bodies of every doc type, and one for each way validate_input
\* refuses a body.
PLong == [s |-> "largo", n |-> 1501]
BigField == [f \in {"titulo"} |-> FieldValue("x", 501, 0)]
\* A field of exactly 500 plain characters, and one of 499 characters of
\* which one is "<".
FullField == [f \in {"titulo"} |-> FieldValue("y", 500, 0)]
EscapedField == [f \in {"titulo"} |-> FieldValue("a<b", 499, 1)]
\* A value for every placeholder of a template.
AllFields(template) == [f \in placeholders[template] |-> FieldValue("valor", 5, 0)]
ServiceRequests ==
    { Req(PDoc, d, "", NoFields, "medio", "es") : d \in VALID_DOC_TYPES }
    \cup { Req(PHola, "pdf", "", NoFields, "basico", "es"),
           Req(PEmpty, "pdf", "", NoFields, "medio", "es"),
           Req(PLong, "pdf", "", NoFields, "medio", "es"),
           Req(PDoc, "rtf", "", NoFields, "medio", "es"),
           Req(PDoc, "pdf", "memo", NoFields, "medio", "es"),
           Req(PDoc, "pdf", "", NoFields, "experto", "es"),
           Req(PDoc, "pdf", "", NoFields, "medio", "pt"),
           Req(PDoc, "pdf", "", BigField, "medio", "es"),
           Req(PDoc, "texto", "", FullField, "medio", "es"),
           Req(PDoc, "texto", "", EscapedField, "medio", "es") }
    \cup { Req(PDoc, "texto", t, AllFields(t), "medio", "es") : t \in TEMPLATES }

\* The identifiers a download may ask for: those minted, and unknown ones.
FileIds == 1..MaxRequests

\* /generate requests of one session, served one at a time by a provider
\* that answers each with the valid document TDoc (so no retry, and, the
\* history growing with every answer, no cache hit); downloads; and the
\* artifact cache letting entries go.
NextService ==
    \/ \E r \in ServiceRequests : generate_document_begin("t1", "s1", r)
    \/ generate_init("t1")
    \/ generate_create("t1")
    \/ generate_context("t1")
    \/ generate_lookup("t1")
    \/ generate_call1("t1") /\ hs'["t1"].provider_error = "" /\ hs'["t1"].generated_text = TDoc
    \/ generate_update("t1")
    \/ generate_store("t1")
    \/ generate_document_save("t1")
    \/ generate_document_render("t1")
    \/ close_db("t1")
    \/ \E f \in FileIds : download_begin(f)
    \/ download_read
    \/ download_end
    \/ \E f \in DOMAIN file_storage : file_expire(f)

SpecService == Init /\ [][NextService]_svars

\* More words than any level allows.
TLong == Text(<<LHead1>>, 2001)

\* A document request in two languages, and a greeting.
CacheRequests ==
    { Req(PDoc, "texto", "", NoFields, "medio", "es"),
      Req(PDoc, "texto", "", NoFields, "medio", "en"),
      Req(PHola, "texto", "", NoFields, "basico", "es") }

\* Requests of two sessions served one at a time, the provider answering
\* with a document of 62 words or with one of 2003.
NextCache ==
    \/ \E s \in Sessions, r \in CacheRequests : generate_document_begin("t1", s, r)
    \/ generate_init("t1")
    \/ generate_create("t1")
    \/ generate_context("t1")
    \/ generate_lookup("t1")
    \/ generate_hit("t1")
    \/ \E text \in {TDoc, TLong} :
          /\ hs["t1"].pc = "g_call1"
          /\ hs' = [hs EXCEPT !["t1"] = first_completion(hs["t1"], text)]
          /\ UNCHANGED <<cache, conversation_context, reset_clean, live, Others>>
    \/ \E text \in {TDoc, TLong} :
          /\ hs["t1"].pc = "g_call2"
          /\ hs' = [hs EXCEPT !["t1"] = second_completion(hs["t1"], text)]
          /\ UNCHANGED <<cache, conversation_context, reset_clean, live, Others>>
    \/ generate_update("t1")
    \/ generate_store("t1")
    \/ generate_document_save("t1")
    \/ generate_document_render("t1")
    \/ close_db("t1")

SpecCache == Init /\ [][NextCache]_svars

\* Two document requests that differ in every field of the snapshot.
PCarta == [s |-> "escribe una carta", n |-> 17]
RaceRequests ==
    { Req(PDoc, "texto", "", NoFields, "medio", "es"),
      Req(PCarta, "markdown", "", NoFields, "profesional", "en") }

\* One step of thread t serving a request of session s1, the provider
\* answering with a text that passes validation.
race_step(t) ==
    \/ \E r \in RaceRequests : generate_document_begin(t, "s1", r)
    \/ generate_init(t)
    \/ generate_create(t)
    \/ generate_context(t)
    \/ generate_lookup(t)
    \/ generate_hit(t)
    \/ generate_call1(t) /\ hs'[t].pc = "g_update"
    \/ generate_update(t)
    \/ generate_store(t)
    \/ generate_document_save(t)
    \/ generate_document_render(t)
    \/ close_db(t)

\* Two threads serving requests of the same session at the same time.
NextRace == \E t \in Threads : race_step(t)

SpecRace == Init /\ [][NextRace]_svars


(***************************************************************************)
(* PROPERTIES OF generate                                                  *)
(***************************************************************************)

\* A step taken by thread t.
StepOf(t) == hs'[t] # hs[t]

\* generate has returned a text to generate_document.
Returned(t) == hs[t].pc = "d_save"

\* generate has raised.
Failed(t) == hs[t].pc = "teardown" /\ hs[t].gen \notin {"", "ok"}

\* Every change a thread makes to the response cache, the session contexts
\* or the artifact cache is recorded in its `eff`.
EffectsRecorded ==
    \A t \in Threads :
        StepOf(t) =>
            /\ cache' # cache => "cache_write" \in hs'[t].eff \ hs[t].eff
            /\ file_storage' # file_storage => "file_write" \in hs'[t].eff \ hs[t].eff
            /\ conversation_context' # conversation_context =>
                  \/ "ctx_update" \in hs'[t].eff \ hs[t].eff
                  \/ /\ "ctx_create" \in hs'[t].eff \ hs[t].eff
                     /\ hs[t].sid \notin DOMAIN conversation_context
                     /\ conversation_context' =
                            Put(conversation_context, hs[t].sid, EmptyContext)

\* C1 as stated: a call answered from the cache makes no provider call, runs
\* no validation and leaves the session-context store exactly as it was (no
\* entry created, changed or removed).
C1_HitTouchesNoContext ==
    \A t \in Threads :
        (Returned(t) /\ hs[t].hit) =>
            hs[t].ncalls = 0 /\ hs[t].nvalid = 0 /\ hs[t].eff = {}

C1_HitState ==
    \A t \in Threads :
        (Returned(t) /\ hs[t].hit) =>
            hs[t].ncalls = 0 /\ hs[t].nvalid = 0 /\ hs[t].eff \subseteq {"ctx_create"}

C1_HitStep ==
    \A t \in Threads :
        (hs[t].pc = "g_hit" /\ hs'[t].pc = "d_save") =>
            /\ hs'[t].generated_text = cache[hs[t].cache_key[1]]
            /\ hs'[t].hit
            /\ UNCHANGED <<cache, conversation_context>>

\* C1 (amended): a call answered from the cache returns the cached text,
\* makes no provider call, runs no validation and changes no session's
\* last-document snapshot; the one change it can make to the session-context
\* store is to create the empty entry of its own session when it had none.
C1_CacheHit == []C1_HitState /\ [][C1_HitStep /\ EffectsRecorded]_svars

\* C1's case: a call answered from the cache that created its session's entry.
C1_Witness ==
    \E t \in Threads : Returned(t) /\ hs[t].hit /\ "ctx_create" \in hs[t].eff

C2_Lookup ==
    \A t \in Threads :
        (hs[t].pc = "g_lookup" /\ StepOf(t) /\ Inputs(hs[t]) \in DOMAIN live) =>
            hs'[t].pc = "g_hit"

C2_Read ==
    \A t \in Threads :
        (hs[t].pc = "g_hit" /\ StepOf(t) /\ Inputs(hs[t]) \in DOMAIN live) =>
            /\ hs'[t].pc = "d_save"
            /\ hs'[t].gen = "ok"
            /\ hs'[t].generated_text = live[Inputs(hs[t])].text
            /\ hs'[t].ncalls = 0

\* C2: once a generate call has returned a generated text, a later call with
\* the same prompt, doc type, template, fields, level and history, made while
\* that entry has not expired, finds it and returns the same text with no
\* provider call, whatever the session contexts have become.
C2_SecondCallHits == [][C2_Lookup /\ C2_Read]_svars

\* C2's case: a call answered from the cache for a session whose context was
\* reset after the entry was written.
C2_Witness ==
    \E t \in Threads :
        /\ Returned(t) /\ hs[t].hit
        /\ Inputs(hs[t]) \in DOMAIN live
        /\ reset_clean[hs[t].sid]

\* C3: a generate call invokes the provider at most twice; twice only for a
\* non-conversational request whose first text failed validation; and when
\* the second text fails too the call raises and returns no text.
C3_AtMostOneRetry ==
    \A t \in Threads :
        /\ hs[t].ncalls <= 2
        /\ hs[t].ncalls = 2 => ~hs[t].is_conversational /\ hs[t].first_check # "valid"
        /\ ( /\ hs[t].ncalls = 2
             /\ hs[t].provider_error = ""
             /\ validate_generated_text(hs[t].generated_text, hs[t].req.level,
                                        hs[t].is_conversational) # "valid" )
           => (Failed(t) /\ hs[t].detail = "validation")

\* C3's case: both attempts failed validation.
C3_Witness ==
    \E t \in Threads : Failed(t) /\ hs[t].detail = "validation" /\ hs[t].ncalls = 2

\* C4: when a provider invocation raises, on the first attempt or on the
\* retry, generate invokes the provider no more and raises the error of that
\* kind.
C4_ProviderErrorEndsCall ==
    \A t \in Threads :
        hs[t].provider_error # "" =>
            /\ hs[t].pc = "teardown"
            /\ hs[t].ncalls = (IF hs[t].first_check = "" THEN 1 ELSE 2)
            /\ hs[t].provider_error = "AuthenticationError" => hs[t].gen = "auth"
            /\ hs[t].provider_error = "RateLimitError" => hs[t].gen = "quota"
            /\ hs[t].provider_error = "APIConnectionError" => hs[t].gen = "conn"
            /\ hs[t].provider_error = "Other" => hs[t].gen = "generic"

\* C4's case: the provider raised on the validation retry.
C4_Witness ==
    \E t \in Threads : hs[t].provider_error = "RateLimitError" /\ hs[t].ncalls = 2

C5_FailedState ==
    \A t \in Threads :
        Failed(t) => hs[t].eff \cap {"cache_write", "ctx_update"} = {}

\* C5: a generate call that raises has written nothing into the response
\* cache and has not rewritten any session's last-document snapshot.
C5_FailureWritesNothing == []C5_FailedState /\ [][EffectsRecorded]_svars

\* C5's case: a call that failed for a session that holds a snapshot.
C5_Witness ==
    \E t \in Threads :
        /\ Failed(t)
        /\ hs[t].sid \in DOMAIN conversation_context
        /\ conversation_context[hs[t].sid].last_document # None

\* C7: the first generate call that reads a session's context after
\* reset_context, no document having been generated for the session since,
\* builds its instructions with no prior-document block.
C7_NoContextAfterReset ==
    [][\A t \in Threads :
          (hs[t].pc = "g_context" /\ hs'[t].pc = "g_lookup" /\ reset_clean[hs[t].sid]) =>
              hs'[t].context_summary = None]_svars

\* C7's case: a document request of a session that generated a document and
\* was then reset.
C7_Witness ==
    \E t \in Threads :
        /\ hs[t].pc = "g_lookup" /\ ~hs[t].is_conversational
        /\ reset_clean[hs[t].sid]
        /\ hs[t].history # <<>>
        /\ hs[t].history[3].content = NoteText(Req(PDoc, "docx", "", NoFields, "medio", "es"))

C8_Update ==
    \A t \in Threads :
        /\ (hs[t].pc = "g_update" /\ hs'[t].pc = "g_store") =>
              /\ hs[t].sid \in DOMAIN conversation_context'
              /\ conversation_context'[hs[t].sid] =
                    [last_document |-> Some(hs[t].generated_text),
                     last_prompt |-> Some(hs[t].req.prompt),
                     last_doc_type |-> Some(hs[t].req.doc_type),
                     last_template |-> Some(hs[t].req.template),
                     last_level |-> Some(hs[t].req.level),
                     last_language |-> Some(hs[t].req.language)]
        /\ (StepOf(t) /\ hs[t].is_conversational) =>
              \A x \in DOMAIN conversation_context :
                  x \in DOMAIN conversation_context'
                  /\ conversation_context'[x] = conversation_context[x]

C8_State ==
    \A t \in Threads :
        /\ (Returned(t) /\ ~hs[t].hit /\ ~hs[t].is_conversational) =>
              "ctx_update" \in hs[t].eff
        /\ hs[t].is_conversational => "ctx_update" \notin hs[t].eff

\* C8: a generate call that misses the cache and succeeds on a
\* non-conversational prompt leaves in its session's context exactly its own
\* text, prompt, doc type, template, level and language; a call on a
\* conversational prompt never rewrites a snapshot.
C8_SnapshotWritten == []C8_State /\ [][C8_Update /\ EffectsRecorded]_svars

\* C8's case: the snapshot written after a retry.
C8_Witness ==
    \E t \in Threads :
        /\ hs[t].pc = "g_store" /\ ~hs[t].is_conversational /\ hs[t].ncalls = 2
        /\ conversation_context[hs[t].sid].last_document = Some(hs[t].generated_text)

\* C6 as stated: a request whose render fails has written neither the
\* artifact cache nor the response cache.
C6_RenderFailureWritesNoCache ==
    \A t \in Threads :
        (hs[t].pc = "teardown" /\ hs[t].detail = "render") =>
            hs[t].eff \cap {"file_write", "cache_write"} = {}


\* C16 as stated: every failure of generate reaches the caller as an
\* authentication, quota, connectivity, generic provider or validation
\* failure, and a call in which the provider raised returns no text.
C16_FiveFailureKinds ==
    \A t \in Threads :
        /\ Failed(t) => hs[t].gen \in {"auth", "quota", "conn", "generic"}
        /\ Returned(t) => hs[t].provider_error = ""

\* The entry of session b is the same before and after the step.
SameEntry(b) ==
    /\ b \in DOMAIN conversation_context <=> b \in DOMAIN conversation_context'
    /\ b \in DOMAIN conversation_context =>
          conversation_context'[b] = conversation_context[b]

C17_Generate ==
    \A t \in Threads :
        StepOf(t) =>
            LET a == IF Free(t) THEN hs'[t].sid ELSE hs[t].sid
            IN \A b \in Sessions \ {a} : SameEntry(b)

C17_Reset ==
    (hs' = hs /\ conversation_context' # conversation_context) =>
        \E a \in Sessions :
            /\ a \in DOMAIN conversation_context
            /\ a \notin DOMAIN conversation_context'
            /\ reset_clean'[a]
            /\ \A b \in Sessions \ {a} : SameEntry(b)

\* C17: a generate call or a reset_context for one session never creates,
\* changes or deletes the context entry of another session.
C17_SessionsIsolated == [][C17_Generate /\ C17_Reset]_svars

\* C17's case: s1 generated and was reset while s2 holds a snapshot.
C17_Witness ==
    /\ "s2" \in DOMAIN conversation_context
    /\ conversation_context["s2"].last_document # None
    /\ "s1" \notin DOMAIN conversation_context
    /\ reset_clean["s1"]
    /\ history["s1"] # <<>>

\* C28 as stated: a reset_context of session s served at any point of a
\* generate call of s never makes that call fail for the missing entry; the
\* call still returns a text.
C28_ResetNeverFailsGenerate ==
    \A t \in Threads :
        Failed(t) => hs[t].detail # "context_missing"


(***************************************************************************)
(* PROPERTIES OF THE HTTP HANDLERS                                         *)
(***************************************************************************)

\* C13 as stated: a download of an identifier that was never minted, or whose
\* entry is gone when it is read, is answered not-found, never with a server
\* error.
C13_MissingArtifactIsNotFound ==
    /\ dl.status # 500
    /\ (dl.pc = "answered" /\ dl.file_id > nfiles) => dl.status = 404

C14_Store ==
    \A t \in Threads :
        (StepOf(t) /\ file_storage' # file_storage) =>
            /\ hs[t].req.doc_type \in {"pdf", "docx", "html"}
            /\ ~hs[t].is_conversational
            /\ \E f \in DOMAIN file_storage' \ DOMAIN file_storage :
                  DOMAIN file_storage' = DOMAIN file_storage \cup {f}

C14_Download ==
    dl' # dl =>
        /\ file_storage' = file_storage
        /\ (dl'.status = 200 /\ dl.status # 200) =>
              /\ dl.file_id \in DOMAIN file_storage
              /\ dl'.payload = Some(file_storage[dl.file_id])

C14_Kept ==
    \A f \in DOMAIN file_storage \cap DOMAIN file_storage' : file_storage'[f] = file_storage[f]

C14_State ==
    /\ \A f \in DOMAIN file_storage : file_storage[f].buffer.doc_type \in {"pdf", "docx", "html"}
    /\ (dl.status = 200 /\ dl.prev_id = dl.file_id) => dl.payload = dl.prev_payload

InvalidBody(r) ==
    \/ r.prompt.n = 0
    \/ r.prompt.n > 1500
    \/ r.doc_type \notin {"texto", "markdown", "pdf", "docx", "html"}
    \/ r.template \notin {"", "carta_formal", "contrato", "informe", "factura"}
    \/ r.level \notin {"basico", "medio", "profesional"}
    \/ r.language \notin {"es", "en", "fr", "de", "it"}
    \/ \E f \in DOMAIN r.fields : r.fields[f].n > 500

C15_State ==
    \A t \in Threads :
        (~Free(t) /\ InvalidBody(hs[t].req)) =>
            /\ hs[t].pc = "teardown" /\ hs[t].status = 400
            /\ hs[t].ncalls = 0 /\ hs[t].gen = ""
            /\ hs[t].eff = {} /\ hs[t].pending = <<>>

C15_Step ==
    \A t \in Threads :
        ( /\ StepOf(t)
          /\ \/ Free(t) /\ InvalidBody(hs'[t].req)
             \/ ~Free(t) /\ InvalidBody(hs[t].req) )
        => UNCHANGED <<cache, conversation_context, history, file_storage>>

\* C15: a /generate request with an empty or over-long prompt, a doc type,
\* template, level or language outside its enumeration, or an oversized
\* field is answered with a validation error before any provider call, and
\* leaves the response cache, the session contexts, the history and the
\* artifact cache as they were.
C15_InvalidInputRejected == []C15_State /\ [][C15_Step]_svars

\* C25 as stated: a request body valid in every other respect is refused for
\* the length of a field exactly when a field value, as supplied, is longer
\* than 500 characters, whatever characters it holds.
C25_FieldLengthAsSupplied ==
    [][\A r \in ServiceRequests :
          ( /\ generate_document_begin("t1", "s1", r)
            /\ r.prompt.n \in 1..1500
            /\ r.doc_type \in {"texto", "markdown", "pdf", "docx", "html"}
            /\ r.template \in {"", "carta_formal", "contrato", "informe", "factura"}
            /\ r.level \in {"basico", "medio", "profesional"}
            /\ r.language \in {"es", "en", "fr", "de", "it"} )
          => ( (hs'["t1"].status = 400) <=> \E f \in DOMAIN r.fields : r.fields[f].n > 500 )]_svars

\* A request that is answered with an error.
AnsweredError(t) == hs[t].pc = "teardown" /\ hs[t].status \in {400, 500}

C29_State ==
    \A t \in Threads : AnsweredError(t) => "ctx_update" \notin hs[t].eff

C29_Step ==
    \A t \in Threads : (AnsweredError(t) /\ StepOf(t)) => history' = history

\* C29 as stated: a /generate request answered with an error has not
\* rewritten its session's last-document snapshot and adds no row to the
\* stored history, also when the generation succeeded and the render failed.
C29_ErrorLeavesSessionAlone == []C29_State /\ [][C29_Step]_svars

\* C30 as stated: a request that is not conversational, names a built-in
\* template and gives a non-empty value for every placeholder of it passes
\* the missing-fields check and reaches generation.
C30_TemplateRequestIsServed ==
    [][\A r \in ServiceRequests :
          ( /\ generate_document_begin("t1", "s1", r)
            /\ validate_input(r) = "ok"
            /\ ~is_conversational_prompt(r.prompt)
            /\ r.template \in {"carta_formal", "contrato", "informe", "factura"}
            /\ \A f \in placeholders[r.template] :
                  f \in DOMAIN r.fields /\ r.fields[f].n > 0 )
          => hs'["t1"].pc = "g_init"]_svars

\* C15's case: an oversized field refused while the caches hold entries.
C15_Witness ==
    \E t \in Threads :
        /\ hs[t].pc = "teardown" /\ hs[t].status = 400 /\ hs[t].detail = "field_too_long"
        /\ DOMAIN cache # {} /\ DOMAIN file_storage # {}


(***************************************************************************)
(* validate_generated_text ON ITS OWN                                      *)
(***************************************************************************)

\* The lines the validated texts are made of, and their filler sizes around
\* the floor and the three ceilings.
SampleLines == {LHead1, LHead2, LHead3, LPlain, LMidHash, LHashNoSpace, LHashOnly}
PadSizes == {0, 40, 47, 48, 49, 50, 51, 498, 499, 500, 501, 998, 999, 1000, 1001,
             1998, 1999, 2000, 2001}
ValidateTexts == {Text(ls, n) : ls \in SeqsUpTo(SampleLines, MaxLines), n \in PadSizes}

InitValidate ==
    /\ ServerInit
    /\ rendering = NoRendering
    /\ validation \in [text : ValidateTexts, level : Levels, is_conversational : BOOLEAN,
                       verdict : {""}]

\* One call of the validator on the drawn arguments.
validate_call ==
    /\ validation.verdict = ""
    /\ validation' = [validation EXCEPT !.verdict =
            validate_generated_text(validation.text, validation.level,
                                    validation.is_conversational)]
    /\ UNCHANGED <<cache, conversation_context, file_storage, history, hs, nreq, nfiles,
                   reset_clean, live, rendering, dl>>

NextValidate == validate_call

SpecValidate == InitValidate /\ [][NextValidate]_svars

BeginsWithHeading(line) ==
    Len(line) >= 3 /\ line[1] \in {"#", "##", "###"} /\ line[2] = " "

\* C23 as stated: a non-conversational text of level medio or profesional
\* whose word count lies between 50 and the level's ceiling is accepted
\* exactly when one of its lines begins with a heading marker followed by
\* text; a "# " in the middle of a line does not make it acceptable.
C23_HeadingAtLineStart ==
    ( /\ validation.verdict # ""
      /\ ~validation.is_conversational
      /\ validation.level \in {"medio", "profesional"}
      /\ word_count(validation.text) >= 50
      /\ word_count(validation.text) <= (IF validation.level = "medio" THEN 1000 ELSE 2000) )
    => ( (validation.verdict = "valid") <=>
            \E k \in 1..Len(validation.text.lines) :
                BeginsWithHeading(validation.text.lines[k]) )


(***************************************************************************)
(* THE TWO BLOCK PARSERS ON THE SAME TEXT                                  *)
(***************************************************************************)

MaxRenderLines == 5

LBullet == <<"-", " ", "x">>
RenderLines == {LHead1, LHead2, LBullet, LTable, LPlain, <<>>}

InitRender ==
    /\ ServerInit
    /\ validation = NoValidation
    /\ rendering \in {Rendering(Text(ls, 0), FALSE) : ls \in SeqsUpTo(RenderLines, MaxRenderLines)}

\* render, doc_type pdf: the story of the document, and whether it raised.
render_pdf ==
    /\ rendering.pdf = None
    /\ rendering' = [rendering EXCEPT !.pdf = Some(parse_markdown_for_pdf(rendering.text, rendering.logo))]
    /\ UNCHANGED <<cache, conversation_context, file_storage, history, hs, nreq, nfiles,
                   reset_clean, live, validation, dl>>

\* render, doc_type docx: the blocks of the document, and whether it raised.
render_docx ==
    /\ rendering.docx = None
    /\ rendering' = [rendering EXCEPT !.docx =
            LET st == parse_markdown_for_docx(rendering.text)
            IN Some([out |-> st.out, raised |-> st.raised])]
    /\ UNCHANGED <<cache, conversation_context, file_storage, history, hs, nreq, nfiles,
                   reset_clean, live, validation, dl>>

NextRender == render_pdf \/ render_docx

SpecRender == InitRender /\ [][NextRender]_svars

RECURSIVE ExpectedNumbers(_, _, _, _)
\* The numbers the headings of the lines ls are to carry, from line i on,
\* after s top-level headings and j second-level ones since the last of them.
ExpectedNumbers(ls, i, s, j) ==
    IF i > Len(ls) THEN <<>>
    ELSE IF Len(ls[i]) >= 2 /\ ls[i][1] = "#" /\ ls[i][2] = " "
         THEN <<<<s + 1>>>> \o ExpectedNumbers(ls, i + 1, s + 1, 0)
    ELSE IF Len(ls[i]) >= 2 /\ ls[i][1] = "##" /\ ls[i][2] = " "
         THEN <<<<s, j + 1>>>> \o ExpectedNumbers(ls, i + 1, s, j + 1)
    ELSE ExpectedNumbers(ls, i + 1, s, j)

RECURSIVE HeadingNumbers(_, _)
\* The numbers the first- and second-level headings of a document carry.
HeadingNumbers(blocks, i) ==
    IF i > Len(blocks) THEN <<>>
    ELSE IF blocks[i].kind \in {"h1", "h2"}
         THEN <<blocks[i].prefix>> \o HeadingNumbers(blocks, i + 1)
    ELSE HeadingNumbers(blocks, i + 1)

\* C10 as stated: in the pdf and in the docx document alike the k-th `# `
\* heading carries "k." and each `## ` heading "s.j", whatever list, table,
\* paragraph and blank lines lie between them.
C10_HeadingsNumberedInBothBackends ==
    LET expected == ExpectedNumbers(rendering.text.lines, 1, 0, 0)
    IN /\ rendering.pdf # None => HeadingNumbers(rendering.pdf[1].story, 1) = expected
       /\ (rendering.docx # None /\ ~rendering.docx[1].raised) =>
             HeadingNumbers(rendering.docx[1].out, 1) = expected


(***************************************************************************)
(* THE TWO BLOCK PARSERS ON TABLES, LISTS AND CHART DIRECTIVES             *)
(***************************************************************************)

MaxBlockLines == 3

LRow == <<"|", "a", "|", "b", "|">>
LIndented == <<" ", " ", "-", " ", "x">>
LChart == <<"ver", " ", BarMarker, " ", "Enero", ":", "10", ",", " ", "Febrero", ":", "20">>
LChartBad == <<BarMarker, " ", "Enero", ":", "abc">>
BlockLines == {LTable, LRow, <<>>, LHead1, LBullet, LIndented, LPlain, LChart, LChartBad}

InitBlocks ==
    /\ ServerInit
    /\ validation = NoValidation
    /\ rendering \in {Rendering(Text(ls, 0), FALSE) : ls \in SeqsUpTo(BlockLines, MaxBlockLines)}

SpecBlocks == InitBlocks /\ [][NextRender]_svars

\* What each backend made of the text, once it has run.
PdfDone == rendering.pdf # None
DocxDone == rendering.docx # None
PdfStory == rendering.pdf[1].story
PdfRaised == rendering.pdf[1].raised
DocxOut == rendering.docx[1].out
DocxRaised == rendering.docx[1].raised
Source == rendering.text.lines

OfKind(blocks, kinds) == SelectSeq(blocks, LAMBDA b : b.kind \in kinds)

\* A source line that begins with a pipe, and the cells written between its
\* pipes.
IsRow(line) == line # <<>> /\ line[1] = "|"
RowCells(line) == SelectSeq([k \in 1..Len(line) |-> <<line[k]>>], LAMBDA c : c # <<"|">>)
RowLines(ls) == SelectSeq(ls, IsRow)

\* The rows of the lines ls form one run: no other line lies between two rows.
OneRun(ls) ==
    /\ \E i \in 1..Len(ls) : IsRow(ls[i])
    /\ \A i, j \in 1..Len(ls) :
          (i < j /\ IsRow(ls[i]) /\ IsRow(ls[j])) => \A k \in i..j : IsRow(ls[k])

ExpectedTable(ls) == [k \in 1..Len(RowLines(ls)) |-> RowCells(RowLines(ls)[k])]

\* C11 as stated: in the pdf and in the docx output alike, one run of
\* consecutive rows yields exactly one table block holding those rows in
\* source order with every cell's text, and the render succeeds.
C11_OneRunOneTable ==
    OneRun(Source) =>
        /\ PdfDone =>
              /\ Len(OfKind(PdfStory, {"table"})) = 1
              /\ OfKind(PdfStory, {"table"})[1].rows = ExpectedTable(Source)
        /\ DocxDone =>
              /\ ~DocxRaised
              /\ Len(OfKind(DocxOut, {"table"})) = 1
              /\ OfKind(DocxOut, {"table"})[1].rows = ExpectedTable(Source)

\* The lines of ls that carry a chart directive.
Directives(ls) == SelectSeq(ls, LAMBDA l : has_marker(l, BarMarker) \/ has_marker(l, LineMarker))

\* C12 as stated: in the pdf and in the docx output alike, a text with one
\* bar-chart directive of well-formed pairs yields exactly one chart block
\* carrying those labelled values, and a text whose directive has a
\* non-numeric value yields no chart block while the render succeeds.
C12_ChartDirective ==
    LET charts(blocks) == OfKind(blocks, {"chart"})
        expected == <<<< <<"Enero">>, <<"10">> >>, << <<"Febrero">>, <<"20">> >>>>
        right(blocks) == /\ Len(charts(blocks)) = 1
                         /\ charts(blocks)[1].text = <<"bar">>
                         /\ charts(blocks)[1].rows = expected
    IN /\ Directives(Source) = <<LChart>> =>
             /\ PdfDone => right(PdfStory)
             /\ (DocxDone /\ ~DocxRaised) => right(DocxOut)
       /\ Directives(Source) = <<LChartBad>> =>
             /\ PdfDone => charts(PdfStory) = <<>>
             /\ (DocxDone /\ ~DocxRaised) => charts(DocxOut) = <<>>

\* The content blocks of a document, without anchors, spacers, the table of
\* contents and charts.
ContentKinds == {"h1", "h2", "h3", "bullet", "para", "table"}
KindsOf(blocks) ==
    LET content == OfKind(blocks, ContentKinds)
    IN [k \in 1..Len(content) |-> content[k].kind]

IsBlank(line) == \A k \in 1..Len(line) : line[k] = " "
FirstAtom(line) == SelectSeq(line, LAMBDA a : a # " ")[1]

RECURSIVE ExpectedKinds(_, _)
\* The kinds of the blocks of the lines ls from line i on, in source order:
\* one table where a run of rows begins, one block for every other line that
\* is not blank.
ExpectedKinds(ls, i) ==
    IF i > Len(ls) THEN <<>>
    ELSE IF IsBlank(ls[i]) THEN ExpectedKinds(ls, i + 1)
    ELSE IF IsRow(ls[i])
         THEN (IF i > 1 /\ IsRow(ls[i - 1]) THEN <<>> ELSE <<"table">>)
              \o ExpectedKinds(ls, i + 1)
    ELSE <<CASE FirstAtom(ls[i]) = "#" -> "h1"
             [] FirstAtom(ls[i]) \in {"-", "*"} -> "bullet"
             [] OTHER -> "para">> \o ExpectedKinds(ls, i + 1)

\* C18 as stated: in both backends the headings, paragraphs, bullet items
\* and tables come out in the order of the source lines they come from (a
\* table before the heading or bullet that follows its rows).  Stated for
\* sources with one run of rows, where which rows make a table is not in
\* question.
C18_BlocksInSourceOrder ==
    OneRun(Source) =>
        /\ PdfDone => KindsOf(PdfStory) = ExpectedKinds(Source, 1)
        /\ (DocxDone /\ ~DocxRaised) => KindsOf(DocxOut) = ExpectedKinds(Source, 1)

\* The number of maximal runs of consecutive rows.
RowGroups(ls) ==
    Cardinality({i \in 1..Len(ls) : IsRow(ls[i]) /\ (i = 1 \/ ~IsRow(ls[i - 1]))})

\* C19 as stated: in both backends a blank line ends the table in progress,
\* so groups of rows separated by blank lines come out as that many tables.
C19_BlankLineEndsTable ==
    (\A i \in 1..Len(Source) : IsRow(Source[i]) \/ Source[i] = <<>>) =>
        /\ PdfDone => Len(OfKind(PdfStory, {"table"})) = RowGroups(Source)
        /\ (DocxDone /\ ~DocxRaised) => Len(OfKind(DocxOut, {"table"})) = RowGroups(Source)

\* A source line of exactly two blanks, a list marker, a blank and text.
IsIndentedBullet(line) ==
    Len(line) > 4 /\ line[1] = " " /\ line[2] = " " /\ line[3] \in {"-", "*"} /\ line[4] = " "

\* C20 as stated: in both backends every source line of two leading blanks
\* and a list marker comes out as a second-level bullet item.
C20_IndentedBullet ==
    LET indented == Len(SelectSeq(Source, IsIndentedBullet))
        second(blocks) == Len(SelectSeq(blocks, LAMBDA b : b.kind = "bullet" /\ b.prefix = <<2>>))
    IN /\ PdfDone => second(PdfStory) = indented
       /\ (DocxDone /\ ~DocxRaised) => second(DocxOut) = indented


(***************************************************************************)
(* THE PDF BACKEND ON CHART DIRECTIVES IN ANY LETTER CASE                  *)
(***************************************************************************)

MaxChartLines == 3

LChartTitle == <<BarMarkerTitle, " ", "Enero", ":", "10">>
LChartCap == <<BarMarkerCap, " ", "Enero", ":", "10">>
LChartTitleBad == <<BarMarkerTitle, " ", "Enero", ":", "abc">>
LLineChart == <<LineMarker, " ", "Enero", ":", "10">>
LLineChartTitle == <<LineMarkerTitle, " ", "Enero", ":", "10">>
ChartLines == {LChart, LChartBad, LChartTitle, LChartCap, LChartTitleBad, LLineChart,
               LLineChartTitle, LPlain, LHead1}

InitCharts ==
    /\ ServerInit
    /\ validation = NoValidation
    /\ rendering \in {Rendering(Text(ls, 0), FALSE) : ls \in SeqsUpTo(ChartLines, MaxChartLines)}

SpecCharts == InitCharts /\ [][NextRender]_svars

\* The data of a directive line are well-formed pairs.
WellFormed(line) == line[Len(line)] \in {"10", "20"}

\* C21 as stated: a line that holds the directive phrase in any letter case
\* is detected, and the pdf render of a text with one such line completes,
\* with exactly one chart when its pairs are well-formed and with none
\* otherwise.
C21_DirectiveInAnyCase ==
    (PdfDone /\ Len(Directives(Source)) = 1) =>
        /\ ~PdfRaised
        /\ Len(OfKind(PdfStory, {"chart"})) = (IF WellFormed(Directives(Source)[1]) THEN 1 ELSE 0)


(***************************************************************************)
(* THE PDF BACKEND'S TABLE OF CONTENTS                                     *)
(***************************************************************************)

MaxTocLines == 3

LHead1Bis == <<"#", " ", "D">>
TocLines == {LHead1, LHead1Bis, LHead2, LHead3, LPlain, LBullet}

InitToc ==
    /\ ServerInit
    /\ validation = NoValidation
    /\ rendering \in {Rendering(Text(ls, 0), logo) :
                        ls \in SeqsUpTo(TocLines, MaxTocLines), logo \in BOOLEAN}

SpecToc == InitToc /\ [][NextRender]_svars

\* The titles of the heading lines of ls, in source order.
HeadingTitles(ls) ==
    LET isHeading(l) == Len(l) >= 2 /\ l[1] \in {"#", "##", "###"} /\ l[2] = " "
        heads == SelectSeq(ls, isHeading)
    IN [k \in 1..Len(heads) |-> SubSeq(heads[k], 3, Len(heads[k]))]

\* In the pdf story the table of contents comes first: its title, then its
\* links and nothing else before the logo and the content.
C22_TocFirst ==
    (PdfDone /\ ~PdfRaised) =>
        LET n == Len(OfKind(PdfStory, {"toc_link"}))
        IN /\ PdfStory[1].kind = "toc_title"
           /\ \A k \in 2..(n + 1) : PdfStory[k].kind = "toc_link"
           /\ Len(OfKind(PdfStory, {"toc_title"})) = 1
           /\ n = Len(HeadingTitles(Source))

\* C22 as stated: the table of contents is at the very start of the pdf
\* story (before the logo and every content block) and holds exactly one
\* link per heading of levels 1 to 3, in the order of the headings in the
\* source, each pointing to the anchor emitted with its heading.
C22_TocInSourceOrder ==
    (PdfDone /\ ~PdfRaised) =>
        LET links == OfKind(PdfStory, {"toc_link"})
            anchors == OfKind(PdfStory, {"anchor"})
        IN /\ C22_TocFirst
           /\ Len(anchors) = Len(links)
           /\ \A k \in 1..Len(links) :
                 /\ links[k].text = HeadingTitles(Source)[k]
                 /\ links[k].prefix = anchors[k].prefix


(***************************************************************************)
(* TWO CONCURRENT REQUESTS OF ONE SESSION                                  *)
(***************************************************************************)

\* Thread t's call missed the cache and has written its snapshot.
Wrote(t) == "ctx_update" \in hs[t].eff /\ ~hs[t].hit

\* The snapshot of thread t's call.
OwnSnapshot(t) == Snapshot(hs[t].req, hs[t].generated_text)

C24_Step ==
    \A t \in Threads :
        StepOf(t) =>
            \/ UNCHANGED conversation_context
            \/ /\ hs[t].pc = "g_create"
               /\ conversation_context' = Put(conversation_context, hs[t].sid, EmptyContext)
            \/ /\ hs[t].pc = "g_update"
               /\ conversation_context' =
                      [conversation_context EXCEPT ![hs[t].sid] = OwnSnapshot(t)]

C24_State ==
    (\A t \in Threads : Wrote(t)) =>
        \E t \in Threads : conversation_context["s1"] = OwnSnapshot(t)

C26_HitInSameLanguage ==
    [][\A t \in Threads :
          (hs[t].pc = "g_hit" /\ hs'[t].pc = "d_save" /\ Inputs(hs[t]) \in DOMAIN live) =>
              live[Inputs(hs[t])].language = hs[t].req.language]_svars

====
